---- MODULE Spec2Model ----
(***************************************************************************)
(* A model of the physics-aware document chunker (src/src/rag/chunker.py). *)
(* Text is a sequence of one-character strings; every offset is 0-based,   *)
(* as in the source.                                                       *)
(***************************************************************************)
EXTENDS Integers, Sequences, FiniteSets, TLC

\* ------------------------------------------------------------------ text

NL == "\n"
SP == " "
\* The backtick: a TLA+ string cannot hold one, so the model writes it as an
\* apostrophe, a character no document of the model holds otherwise.
BT == "'"
\* The fence of a code block, three backticks.
FENCE == <<BT, BT, BT>>

Min(a, b) == IF a <= b THEN a ELSE b
Max(a, b) == IF a >= b THEN a ELSE b

\* str.strip() and the regex class \s, over the characters of the model.
IsSpace(c) == c \in {" ", "\n", "\t"}

\* The letters of the model that have two cases, lower case and upper case in
\* the same order; the last six pairs are Greek letters, written by name. The
\* small sigma of the lexicon is a character of the model with no capital in
\* it: the lower case of a capital sigma depends on its place in the word.
LowerLetters ==
    <<"a", "b", "c", "d", "e", "f", "g", "h", "i", "j", "k", "l", "m", "n", "o", "p",
      "q", "r", "s", "t", "u", "v", "w", "x", "y", "z",
      "<alpha>", "<gamma>", "<delta>", "<eta>", "<theta>", "<phi>">>
UpperLetters ==
    <<"A", "B", "C", "D", "E", "F", "G", "H", "I", "J", "K", "L", "M", "N", "O", "P",
      "Q", "R", "S", "T", "U", "V", "W", "X", "Y", "Z",
      "<Alpha>", "<Gamma>", "<Delta>", "<Eta>", "<Theta>", "<Phi>">>

\* The elements of a sequence.
Range(s) == {s[i] : i \in 1..Len(s)}

Digits == {"0", "1", "2", "3", "4", "5", "6", "7", "8", "9"}

\* The regex class \w, over the characters of the model: the letters, the
\* digits (the superscript two is one), the underscore.
IsWord(c) ==
    c \in Range(LowerLetters) \cup Range(UpperLetters) \cup Digits
             \cup {"_", "<sup2>", "<sigma>"}

\* t[i] for a 0-based i.
At(t, i) == t[i + 1]

\* A Python slice bound: negative counts from the end, then clamped.
PyIdx(i, n) == IF i < 0 THEN Max(i + n, 0) ELSE Min(i, n)

\* t[i:j]
Slice(t, i, j) == SubSeq(t, PyIdx(i, Len(t)) + 1, PyIdx(j, Len(t)))

\* Whether sub occurs in t at the 0-based offset i.
OccursAt(t, sub, i) ==
    /\ i >= 0
    /\ i + Len(sub) <= Len(t)
    /\ \A k \in 1..Len(sub) : t[i + k] = sub[k]

\* t.rfind(sub): the highest offset where sub occurs, -1 when there is none.
RFind(t, sub) ==
    LET hits == {i \in 0..Len(t) : OccursAt(t, sub, i)}
    IN  IF hits = {} THEN -1 ELSE CHOOSE i \in hits : \A j \in hits : j <= i

\* t.strip()
Strip(t) ==
    LET keep == {i \in 1..Len(t) : ~IsSpace(t[i])}
    IN  IF keep = {} THEN <<>>
        ELSE SubSeq(t, CHOOSE i \in keep : \A j \in keep : i <= j,
                       CHOOSE i \in keep : \A j \in keep : j <= i)

\* The first offset >= i whose character is in cs, Len(t) when there is none.
FirstIn(t, i, cs) ==
    LET hits == {j \in i..(Len(t) - 1) : At(t, j) \in cs}
    IN  IF hits = {} THEN Len(t) ELSE CHOOSE j \in hits : \A k \in hits : j <= k

\* The first offset >= i whose character is no word character.
FirstNonWord(t, i) ==
    LET hits == {j \in i..(Len(t) - 1) : ~IsWord(At(t, j))}
    IN  IF hits = {} THEN Len(t) ELSE CHOOSE j \in hits : \A k \in hits : j <= k

\* The first offset >= i where sub occurs, -1 when there is none (str.find).
FindFrom(t, sub, i) ==
    LET hits == {j \in i..Len(t) : OccursAt(t, sub, j)}
    IN  IF hits = {} THEN -1 ELSE CHOOSE j \in hits : \A k \in hits : j <= k

\* ------------------------------------------------------ regex patterns

\* _latex_display_pattern: two dollars, one or more non-dollar characters
\* (line breaks included), two dollars. The end of the match that starts at
\* offset i, -1 when none starts there.
DisplayMatchEnd(t, i) ==
    IF /\ OccursAt(t, <<"$", "$">>, i)
       /\ i + 2 < Len(t)
       /\ At(t, i + 2) # "$"
    THEN LET j == FirstIn(t, i + 3, {"$"})
         IN  IF OccursAt(t, <<"$", "$">>, j) THEN j + 2 ELSE -1
    ELSE -1

\* _latex_inline_pattern: a dollar not preceded by a dollar, one or more
\* characters other than dollar and line break, a dollar not followed by one.
InlineMatchEnd(t, i) ==
    IF /\ i < Len(t)
       /\ At(t, i) = "$"
       /\ (i = 0 \/ At(t, i - 1) # "$")
       /\ i + 1 < Len(t)
       /\ At(t, i + 1) \notin {"$", NL}
    THEN LET j == FirstIn(t, i + 2, {"$", NL})
         IN  IF /\ j < Len(t)
                /\ At(t, j) = "$"
                /\ (j + 1 = Len(t) \/ At(t, j + 1) # "$")
             THEN j + 1 ELSE -1
    ELSE -1

\* _code_block_pattern: three backticks, word characters (the language), a
\* line break, then lazily anything up to the next three backticks.
CodeMatchEnd(t, i) ==
    IF OccursAt(t, FENCE, i)
    THEN LET k == FirstNonWord(t, i + 3)
         IN  IF k < Len(t) /\ At(t, k) = NL
             THEN LET m == FindFrom(t, FENCE, k + 1)
                  IN  IF m >= 0 THEN m + 3 ELSE -1
             ELSE -1
    ELSE -1

MatchEnd(kind, t, i) ==
    CASE kind = "latex_display" -> DisplayMatchEnd(t, i)
      [] kind = "latex_inline"  -> InlineMatchEnd(t, i)
      [] kind = "code"          -> CodeMatchEnd(t, i)

\* pattern.finditer(t): the non-overlapping matches, leftmost first, scanning
\* from offset i.
RECURSIVE FindIter(_, _, _)
FindIter(kind, t, i) ==
    IF i >= Len(t) THEN <<>>
    ELSE LET e == MatchEnd(kind, t, i)
         IN  IF e >= 0
             THEN <<[start |-> i, end |-> e, block_type |-> kind]>>
                      \o FindIter(kind, t, e)
             ELSE FindIter(kind, t, i + 1)

\* list.sort(key=lambda b: b.start): a stable insertion sort.
RECURSIVE SortByStart(_)
SortByStart(bs) ==
    IF Len(bs) <= 1 THEN bs
    ELSE LET rest == SortByStart(SubSeq(bs, 1, Len(bs) - 1))
             b    == bs[Len(bs)]
             k    == Cardinality({i \in 1..Len(rest) : rest[i].start <= b.start})
         IN  SubSeq(rest, 1, k) \o <<b>> \o SubSeq(rest, k + 1, Len(rest))

FindProtectedBlocks(t) ==
    SortByStart(FindIter("latex_display", t, 0)
                    \o FindIter("latex_inline", t, 0)
                    \o FindIter("code", t, 0))

\* _has_latex, _has_code: pattern.search(text) finds a match.
HasLatex(t) ==
    FindIter("latex_display", t, 0) # <<>> \/ FindIter("latex_inline", t, 0) # <<>>

HasCode(t) == FindIter("code", t, 0) # <<>>

\* --------------------------------------------------------------- sections

\* The number of "#" characters from offset i on.
RECURSIVE HashRun(_, _)
HashRun(t, i) ==
    IF i < Len(t) /\ At(t, i) = "#" THEN 1 + HashRun(t, i + 1) ELSE 0

\* _header_pattern (MULTILINE): at a line start, one to six hashes, one or
\* more whitespace characters, one or more characters of one line (group 2),
\* the end of the line. The match that starts at offset i, as [ok, end,
\* title_start]; group 2 is t[title_start:end]. The whitespace run is taken
\* whole (line breaks included); when it reaches the end of the text it gives
\* characters back until group 2 has one.
HeaderMatch(t, i) ==
    LET none == [ok |-> FALSE, end |-> -1, title_start |-> -1]
        r    == HashRun(t, i)
        h    == i + r
    IN  IF /\ i < Len(t)
           /\ (i = 0 \/ At(t, i - 1) = NL)
           /\ r >= 1 /\ r <= 6
           /\ h < Len(t) /\ IsSpace(At(t, h))
        THEN LET nonws == {j \in h..(Len(t) - 1) : ~IsSpace(At(t, j))}
                 back  == {p \in (h + 1)..(Len(t) - 1) : At(t, p) # NL}
                 w     == IF nonws # {}
                          THEN CHOOSE j \in nonws : \A k \in nonws : j <= k
                          ELSE IF back # {}
                               THEN CHOOSE p \in back : \A q \in back : q <= p
                               ELSE -1
             IN  IF w < 0 THEN none
                 ELSE [ok |-> TRUE, end |-> FirstIn(t, w, {NL}), title_start |-> w]
        ELSE none

\* list(self._header_pattern.finditer(text)), scanning from offset i.
RECURSIVE HeaderMatches(_, _)
HeaderMatches(t, i) ==
    IF i >= Len(t) THEN <<>>
    ELSE LET m == HeaderMatch(t, i)
         IN  IF m.ok
             THEN <<[start |-> i, end |-> m.end,
                     title |-> Strip(Slice(t, m.title_start, m.end))]>>
                      \o HeaderMatches(t, m.end)
             ELSE HeaderMatches(t, i + 1)

\* The sections of the headers hs[i..], each from its header to the next.
RECURSIVE HeaderSections(_, _, _)
HeaderSections(t, hs, i) ==
    IF i > Len(hs) THEN <<>>
    ELSE LET start == hs[i].start
             end   == IF i + 1 <= Len(hs) THEN hs[i + 1].start ELSE Len(t)
             section_text == Strip(Slice(t, start, end))
         IN  (IF section_text # <<>>
              THEN <<[title |-> hs[i].title, text |-> section_text, start |-> start]>>
              ELSE <<>>)
                 \o HeaderSections(t, hs, i + 1)

\* SplitBySections with the text before the first header made a section
\* whenever there is any, blank or not.
SplitBySectionsAnyLead(t) ==
    LET header_matches == HeaderMatches(t, 0)
    IN  IF header_matches = <<>>
        THEN <<[title |-> <<>>, text |-> t, start |-> 0]>>
        ELSE LET pre_text == Strip(Slice(t, 0, header_matches[1].start))
             IN  (IF header_matches[1].start > 0
                  THEN <<[title |-> <<>>, text |-> pre_text, start |-> 0]>>
                  ELSE <<>>)
                     \o HeaderSections(t, header_matches, 1)

SplitBySections(t) ==
    LET header_matches == HeaderMatches(t, 0)
    IN  IF header_matches = <<>>
        THEN <<[title |-> <<>>, text |-> t, start |-> 0]>>
        ELSE LET pre_text == Strip(Slice(t, 0, header_matches[1].start))
             IN  (IF header_matches[1].start > 0 /\ pre_text # <<>>
                  THEN <<[title |-> <<>>, text |-> pre_text, start |-> 0]>>
                  ELSE <<>>)
                     \o HeaderSections(t, header_matches, 1)

\* ------------------------------------------------------- safe boundary

\* The width of the backward search window of _find_safe_boundary.
SearchWindow == 200

\* The sentence terminators of _find_safe_boundary, in the order it tries them.
SentencePuncts ==
    << <<".", SP>>, <<".", NL>>, <<"?", SP>>, <<"?", NL>>, <<"!", SP>>, <<"!", NL>> >>

\* SnapTarget with the target moved to the start of the block it is inside.
SnapTargetBack(text, target_end, blocks, offset) ==
    LET actual_end == offset + target_end
        hits == {k \in 1..Len(blocks) :
                    /\ blocks[k].start < actual_end
                    /\ actual_end < blocks[k].end
                    /\ blocks[k].end - offset <= Len(text)}
    IN  IF hits = {} THEN target_end
        ELSE blocks[CHOOSE k \in hits : \A j \in hits : k <= j].start - offset

\* The block-snap: the first protected block that holds the absolute target
\* strictly inside and whose end still fits in the text moves the target to
\* its end.
SnapTarget(text, target_end, blocks, offset) ==
    LET actual_end == offset + target_end
        hits == {k \in 1..Len(blocks) :
                    /\ blocks[k].start < actual_end
                    /\ actual_end < blocks[k].end
                    /\ blocks[k].end - offset <= Len(text)}
    IN  IF hits = {} THEN target_end
        ELSE blocks[CHOOSE k \in hits : \A j \in hits : k <= j].end - offset

\* The sentence rule: the first terminator, in list order, whose right-most
\* occurrence lies past one third of the window; the offset after it in the
\* window, -1 when no terminator qualifies.
SentenceBreak(search_text) ==
    LET ok == {k \in 1..Len(SentencePuncts) :
                  /\ RFind(search_text, SentencePuncts[k]) # -1
                  /\ RFind(search_text, SentencePuncts[k]) > Len(search_text) \div 3}
    IN  IF ok = {} THEN -1
        ELSE LET k == CHOOSE k \in ok : \A j \in ok : k <= j
             IN  RFind(search_text, SentencePuncts[k]) + Len(SentencePuncts[k])

\* FindSafeBoundary with the sentence rule tried before the paragraph rule.
FindSafeBoundarySentenceFirst(text, start, target_end, blocks, offset) ==
    LET snapped      == SnapTarget(text, target_end, blocks, offset)
        search_start == Max(start, snapped - SearchWindow)
        search_text  == Slice(text, search_start, snapped)
        para_break   == RFind(search_text, <<NL, NL>>)
        sent_end     == SentenceBreak(search_text)
        line_break   == RFind(search_text, <<NL>>)
    IN  IF sent_end # -1
        THEN search_start + sent_end
        ELSE IF para_break # -1 /\ para_break > Len(search_text) \div 2
        THEN search_start + para_break + 2
        ELSE IF line_break # -1 /\ line_break > Len(search_text) \div 3
        THEN search_start + line_break + 1
        ELSE snapped

FindSafeBoundary(text, start, target_end, blocks, offset) ==
    LET snapped      == SnapTarget(text, target_end, blocks, offset)
        search_start == Max(start, snapped - SearchWindow)
        search_text  == Slice(text, search_start, snapped)
        para_break   == RFind(search_text, <<NL, NL>>)
        sent_end     == SentenceBreak(search_text)
        line_break   == RFind(search_text, <<NL>>)
    IN  IF para_break # -1 /\ para_break > Len(search_text) \div 2
        THEN search_start + para_break + 2
        ELSE IF sent_end # -1
        THEN search_start + sent_end
        ELSE IF line_break # -1 /\ line_break > Len(search_text) \div 3
        THEN search_start + line_break + 1
        ELSE snapped

\* ------------------------------------------------------------ enrichment

\* The position of x in the sequence s, 0 when it is not in it.
IndexOf(s, x) ==
    IF \E i \in 1..Len(s) : s[i] = x
    THEN CHOOSE i \in 1..Len(s) : s[i] = x /\ \A j \in 1..(i - 1) : s[j] # x
    ELSE 0

\* str.lower() and str.upper(), character by character.
ToLower(t) ==
    [i \in 1..Len(t) |->
        IF IndexOf(UpperLetters, t[i]) > 0
        THEN LowerLetters[IndexOf(UpperLetters, t[i])] ELSE t[i]]

ToUpper(t) ==
    [i \in 1..Len(t) |->
        IF IndexOf(LowerLetters, t[i]) > 0
        THEN UpperLetters[IndexOf(LowerLetters, t[i])] ELSE t[i]]

\* sub in t
Contains(t, sub) == \E i \in 0..(Len(t) - Len(sub)) : OccursAt(t, sub, i)

\* PHYSICS_TERMS["particles"]
Particles ==
    << <<"h", "i", "g", "g", "s">>, <<"b", "o", "s", "o", "n">>, <<"q", "u", "a", "r", "k">>,
       <<"l", "e", "p", "t", "o", "n">>, <<"m", "u", "o", "n">>,
       <<"e", "l", "e", "c", "t", "r", "o", "n">>, <<"p", "h", "o", "t", "o", "n">>,
       <<"n", "e", "u", "t", "r", "i", "n", "o">>, <<"g", "l", "u", "o", "n">>,
       <<"p", "r", "o", "t", "o", "n">>, <<"n", "e", "u", "t", "r", "o", "n">>,
       <<"m", "e", "s", "o", "n">>, <<"p", "i", "o", "n">>, <<"k", "a", "o", "n">>,
       <<"t", "a", "u">>, <<"c", "h", "a", "r", "m">>, <<"b", "o", "t", "t", "o", "m">>,
       <<"t", "o", "p">>, <<"s", "t", "r", "a", "n", "g", "e">>, <<"u", "p">>,
       <<"d", "o", "w", "n">>, <<"W", " ", "b", "o", "s", "o", "n">>,
       <<"Z", " ", "b", "o", "s", "o", "n">>, <<"f", "e", "r", "m", "i", "o", "n">>,
       <<"h", "a", "d", "r", "o", "n">>, <<"b", "a", "r", "y", "o", "n">>,
       <<"a", "n", "t", "i", "p", "a", "r", "t", "i", "c", "l", "e">> >>

\* PHYSICS_TERMS["detectors"]
Detectors ==
    << <<"A", "T", "L", "A", "S">>, <<"C", "M", "S">>, <<"L", "H", "C", "b">>,
       <<"A", "L", "I", "C", "E">>, <<"L", "H", "C">>, <<"C", "E", "R", "N">>,
       <<"c", "a", "l", "o", "r", "i", "m", "e", "t", "e", "r">>,
       <<"t", "r", "a", "c", "k", "e", "r">>,
       <<"m", "u", "o", "n", " ", "s", "p", "e", "c", "t", "r", "o", "m", "e", "t", "e", "r">>,
       <<"E", "C", "A", "L">>, <<"H", "C", "A", "L">>,
       <<"p", "i", "x", "e", "l", " ", "d", "e", "t", "e", "c", "t", "o", "r">>,
       <<"s", "i", "l", "i", "c", "o", "n", " ", "s", "t", "r", "i", "p">>,
       <<"d", "r", "i", "f", "t", " ", "t", "u", "b", "e">>,
       <<"t", "r", "i", "g", "g", "e", "r">>, <<"D", "A", "Q">> >>

\* PHYSICS_TERMS["concepts"]
Concepts ==
    << <<"i", "n", "v", "a", "r", "i", "a", "n", "t", " ", "m", "a", "s", "s">>,
       <<"t", "r", "a", "n", "s", "v", "e", "r", "s", "e", " ", "m", "o", "m", "e", "n", "t", "u", "m">>,
       <<"p", "s", "e", "u", "d", "o", "r", "a", "p", "i", "d", "i", "t", "y">>,
       <<"r", "a", "p", "i", "d", "i", "t", "y">>,
       <<"c", "r", "o", "s", "s", " ", "s", "e", "c", "t", "i", "o", "n">>,
       <<"l", "u", "m", "i", "n", "o", "s", "i", "t", "y">>,
       <<"b", "r", "a", "n", "c", "h", "i", "n", "g", " ", "r", "a", "t", "i", "o">>,
       <<"d", "e", "c", "a", "y", " ", "w", "i", "d", "t", "h">>,
       <<"c", "o", "u", "p", "l", "i", "n", "g">>, <<"v", "e", "r", "t", "e", "x">>,
       <<"j", "e", "t">>,
       <<"m", "i", "s", "s", "i", "n", "g", " ", "e", "n", "e", "r", "g", "y">>,
       <<"p", "i", "l", "e", "-", "u", "p">>,
       <<"s", "t", "a", "n", "d", "a", "r", "d", " ", "m", "o", "d", "e", "l">>,
       <<"s", "u", "p", "e", "r", "s", "y", "m", "m", "e", "t", "r", "y">>,
       <<"d", "a", "r", "k", " ", "m", "a", "t", "t", "e", "r">>,
       <<"C", "P", " ", "v", "i", "o", "l", "a", "t", "i", "o", "n">>,
       <<"e", "l", "e", "c", "t", "r", "o", "w", "e", "a", "k">>, <<"Q", "C", "D">>,
       <<"Q", "E", "D">>,
       <<"F", "e", "y", "n", "m", "a", "n", " ", "d", "i", "a", "g", "r", "a", "m">>,
       <<"a", "m", "p", "l", "i", "t", "u", "d", "e">> >>

\* PHYSICS_TERMS["variables"]; a Greek letter, the root sign and the superscript two
\* are written as one character each, by name.
Variables ==
    << <<"p", "_", "T">>, <<"p", "T">>, <<"<eta>">>, <<"e", "t", "a">>, <<"<phi>">>,
       <<"p", "h", "i">>, <<"<Delta>", "R">>, <<"d", "e", "l", "t", "a", "R">>,
       <<"M", "_", "i", "n", "v">>, <<"<sqrt>", "s">>, <<"<sigma>">>, <<"<Gamma>">>,
       <<"<alpha>", "_", "s">>, <<"s", "i", "n", "<sup2>", "<theta>", "_", "W">>,
       <<"E", "_", "T">>, <<"m", "_", "H">> >>

\* The keywords of a tutorial chunk.
TutorialKeywords ==
    << <<"t", "u", "t", "o", "r", "i", "a", "l">>, <<"e", "x", "a", "m", "p", "l", "e">>,
       <<"s", "t", "e", "p">>, <<"h", "o", "w", " ", "t", "o">> >>

\* The keywords of a reference chunk.
ReferenceKeywords ==
    << <<"d", "e", "t", "e", "c", "t", "o", "r">>, <<"a", "t", "l", "a", "s">>,
       <<"c", "m", "s">>, <<"t", "r", "a", "c", "k", "e", "r">>,
       <<"c", "a", "l", "o", "r", "i", "m", "e", "t", "e", "r">> >>
\* The tags _generate_tags adds by name.
TagEquations == <<"e", "q", "u", "a", "t", "i", "o", "n", "s">>
TagCodeExample == <<"c", "o", "d", "e", "-", "e", "x", "a", "m", "p", "l", "e">>
TagParticles == <<"p", "a", "r", "t", "i", "c", "l", "e", "s">>
TagHiggs == <<"h", "i", "g", "g", "s">>

\* Every string a set of the enricher can hold.
SetUniverse ==
    <<TagEquations, TagCodeExample, TagParticles>> \o Particles \o Detectors
        \o Concepts \o Variables

\* list(S) of a set S of strings: its elements in the iteration order of the
\* hash table, which depends on the process's string-hash seed and on nothing
\* the chunker controls. The seed picks the order: the elements by their
\* position in SetUniverse times 87 * seed - 86, modulo the prime 89 (seed 1
\* lists them in lexicon order, seed 2 in the reverse of it).
RECURSIVE ListOfSet(_, _)
ListOfSet(S, seed) ==
    IF S = {} THEN <<>>
    ELSE LET rank(x) == (IndexOf(SetUniverse, x) * (87 * seed - 86)) % 89
             first   == CHOOSE x \in S : \A y \in S : rank(x) <= rank(y)
         IN  <<first>> \o ListOfSet(S \ {first}, seed)

\* _detect_physics_terms
DetectPhysicsTerms(text, seed) ==
    LET text_lower == ToLower(text)
        found == {Concepts[i] : i \in {k \in 1..Len(Concepts) :
                                          Contains(text_lower, ToLower(Concepts[k]))}}
                 \cup
                 {Variables[i] : i \in {k \in 1..Len(Variables) :
                                          \/ Contains(text_lower, ToLower(Variables[k]))
                                          \/ Contains(text, Variables[k])}}
    IN  Slice(ListOfSet(found, seed), 0, 10)

\* _detect_detectors
DetectDetectors(text) ==
    LET text_upper == ToUpper(text)
        IsIn(detector) == Contains(text_upper, ToUpper(detector))
    IN  SelectSeq(Slice(Detectors, 0, 8), IsIn)

\* _detect_particles
DetectParticles(text, seed) ==
    LET text_lower == ToLower(text)
        IsIn(particle) == Contains(text_lower, ToLower(particle))
        found == SelectSeq(Particles, IsIn)
    IN  Slice(ListOfSet(Range(found), seed), 0, 10)

\* Whether the text holds one of the keywords.
AnyKeyword(text_lower, keywords) ==
    \E k \in 1..Len(keywords) : Contains(text_lower, keywords[k])

\* valid_types of validate_chunk
ValidTypes == {"theory", "code", "equation", "mixed", "general", "tutorial", "reference"}

\* ClassifyChunkType with "equation" from three math matches on, and the
\* keywords looked at before the code.
ClassifyKeywordsFirst(text, has_latex, has_code) ==
    LET text_lower  == ToLower(text)
        latex_count == Len(FindIter("latex_display", text, 0))
                           + Len(FindIter("latex_inline", text, 0))
    IN  IF has_code /\ has_latex THEN "mixed"
        ELSE IF has_latex
             THEN IF latex_count >= 3 THEN "equation" ELSE "theory"
        ELSE IF AnyKeyword(text_lower, TutorialKeywords) THEN "tutorial"
        ELSE IF has_code THEN "code"
        ELSE IF AnyKeyword(text_lower, ReferenceKeywords) THEN "reference"
        ELSE "theory"

\* ClassifyChunkType with the test for code before the test for both.
ClassifyCodeFirst(text, has_latex, has_code) ==
    IF has_code THEN "code"
    ELSE IF has_code /\ has_latex THEN "mixed"
    ELSE IF has_latex THEN "theory"
    ELSE "theory"

\* _classify_chunk_type
ClassifyChunkType(text, has_latex, has_code) ==
    LET text_lower  == ToLower(text)
        latex_count == Len(FindIter("latex_display", text, 0))
                           + Len(FindIter("latex_inline", text, 0))
    IN  IF has_code /\ has_latex THEN "mixed"
        ELSE IF has_code THEN "code"
        ELSE IF has_latex
             THEN IF latex_count > 3 THEN "equation" ELSE "theory"
        ELSE IF AnyKeyword(text_lower, TutorialKeywords) THEN "tutorial"
        ELSE IF AnyKeyword(text_lower, ReferenceKeywords) THEN "reference"
        ELSE "theory"

\* The tags before they are deduplicated and cut.
TagList(physics_terms, detectors, particles, has_latex, has_code) ==
    (IF has_latex THEN <<TagEquations>> ELSE <<>>)
        \o (IF has_code THEN <<TagCodeExample>> ELSE <<>>)
        \o Slice(physics_terms, 0, 3)
        \o Slice(detectors, 0, 2)
        \o (IF particles # <<>>
            THEN <<TagParticles>>
                     \o (IF \E i \in 1..Len(particles) : ToLower(particles[i]) = TagHiggs
                         THEN <<TagHiggs>> ELSE <<>>)
            ELSE <<>>)

\* GenerateTags without the cut to eight tags.
GenerateTagsNoCap(physics_terms, detectors, particles, has_latex, has_code, seed) ==
    ListOfSet(Range(TagList(physics_terms, detectors, particles, has_latex, has_code)),
              seed)

\* _generate_tags
GenerateTags(physics_terms, detectors, particles, has_latex, has_code, seed) ==
    Slice(ListOfSet(Range(TagList(physics_terms, detectors, particles, has_latex,
                                  has_code)), seed),
          0, 8)

\* The enrichment of _make_chunk: the fields of ChunkMetadata it computes from
\* the chunk's text alone, under the string-hash seed of the process.
Metadata(text, seed) ==
    LET has_latex     == HasLatex(text)
        has_code      == HasCode(text)
        physics_terms == DetectPhysicsTerms(text, seed)
        detectors     == DetectDetectors(text)
        particles     == DetectParticles(text, seed)
    IN  [chunk_type        |-> ClassifyChunkType(text, has_latex, has_code),
         tags              |-> GenerateTags(physics_terms, detectors, particles,
                                            has_latex, has_code, seed),
         has_latex         |-> has_latex,
         has_code          |-> has_code,
         physics_terms     |-> physics_terms,
         detector_mentions |-> detectors,
         particle_mentions |-> particles]

\* --------------------------------------------------------------------- ids

\* The number of characters of the text generate_chunk_id hashes.
IdPrefixLen == 100

\* HashContent over the whole text, not its first characters.
HashContentWhole(text, source) == source \o <<":">> \o text

\* The string generate_chunk_id hashes: f"{source}:{text[:100]}".
HashContent(text, source) == source \o <<":">> \o Slice(text, 0, IdPrefixLen)

\* hashlib.sha256(content.encode('utf-8')).hexdigest()[:16]. The digest is
\* written as the string it is the digest of: equal strings have equal
\* digests, and no two distinct strings of the model are taken to collide.
Sha256Hex16(content) == [sha256 |-> content]

\* generate_chunk_id(text, source, method); uuid4 is the value uuid.uuid4()
\* draws when method is "uuid".
GenerateChunkId(text, source, method, uuid4) ==
    IF method = "uuid"
    THEN [uuid4 |-> uuid4]
    ELSE Sha256Hex16(HashContent(text, source))

\* ----------------------------------------------------------------- chunks

\* The documents of the model are mappings that hold 'content' alone:
\* chunk_document reads their source as the default, "unknown".
source == <<"u", "n", "k", "n", "o", "w", "n">>

\* _make_chunk: the chunk record (the fields of Chunk and ChunkMetadata the
\* splitter decides).
MakeChunk(text, section, start_char, end_char, index) ==
    [id          |-> GenerateChunkId(text, source, "hash", 0),
     text        |-> text,
     section     |-> section,
     start_char  |-> start_char,
     end_char    |-> end_char,
     chunk_index |-> index]

\* Chunk.__post_init__ raises ValueError on an empty text.
ChunkRaises(text) == text = <<>>

\* ------------------------------------------------------------------ state

VARIABLES
    chunk_size, overlap, min_chunk_size, respect_sections,  \* the chunker's configuration
    pc,                \* where chunk_document stands
    content,           \* the document's content
    protected_blocks,  \* chunk_document's protected_blocks
    sections,          \* chunk_document's sections
    sec,               \* the section the for loop is at (1-based)
    chunks,            \* chunk_document's chunks
    chunk_index,       \* chunk_document's chunk_index
    sec_chunks,        \* _create_chunks' chunks
    pos,               \* _create_chunks' pos
    next_index,        \* _create_chunks' chunk_index
    visited,           \* the loop heads (pos, last start) this section has been at
    id_calls,          \* the direct calls of generate_chunk_id, with their results
    documents,         \* chunk_documents' documents
    doc_i,             \* the document its for loop is at (1-based; 0: no call of it)
    all_chunks,        \* chunk_documents' all_chunks
    returned,          \* what each call of chunk_document in the loop returned
    boundary_call      \* the direct call of _find_safe_boundary there is, as a list
                       \* of one (or none): its arguments, and its result once
                       \* it has returned

vars == <<chunk_size, overlap, min_chunk_size, respect_sections, pc, content,
          protected_blocks, sections, sec, chunks, chunk_index, sec_chunks, pos,
          next_index, visited, id_calls, documents, doc_i, all_chunks, returned,
          boundary_call>>

config == <<chunk_size, overlap, min_chunk_size, respect_sections>>

\* What a call of chunk_document leaves alone.
aside == <<id_calls, documents, doc_i, all_chunks, returned, boundary_call>>

\* The arguments _create_chunks is called with for the current section.
text    == sections[sec].text
section == sections[sec].title
offset  == sections[sec].start

Last(s) == s[Len(s)]

\* What the next iteration of the while loop depends on besides the text: the
\* cursor and the start of the last chunk (-1 when there is none).
LoopHead == <<pos, IF sec_chunks = <<>> THEN -1 ELSE Last(sec_chunks).start_char>>

\* ---------------------------------------------------------------- actions

\* PhysicsAwareChunker(chunk_size, overlap, min_chunk_size, respect_sections),
\* and the direct call of _find_safe_boundary that is to be made on it.
ConstructWith(sizes, overlaps, mins, respects, calls) ==
    /\ chunk_size \in sizes
    /\ overlap \in overlaps
    /\ min_chunk_size \in mins
    /\ respect_sections \in respects
    /\ pc = "idle"
    /\ content = <<>>
    /\ protected_blocks = <<>>
    /\ sections = <<>>
    /\ sec = 0
    /\ chunks = <<>>
    /\ chunk_index = 0
    /\ sec_chunks = <<>>
    /\ pos = 0
    /\ next_index = 0
    /\ visited = {}
    /\ id_calls = <<>>
    /\ documents = <<>>
    /\ doc_i = 0
    /\ all_chunks = <<>>
    /\ returned = <<>>
    /\ boundary_call \in calls

\* PhysicsAwareChunker(chunk_size, overlap, min_chunk_size, respect_sections)
Construct(sizes, overlaps, mins, respects) ==
    ConstructWith(sizes, overlaps, mins, respects, {<<>>})

\* ChunkDocument with the chunk index kept from the call before.
ChunkDocumentKeepIndex(doc) ==
    /\ pc = "idle"
    /\ content' = doc
    /\ chunks' = <<>>
    /\ chunk_index' = chunk_index
    /\ IF Strip(doc) = <<>>
       THEN /\ pc' = "done"
            /\ UNCHANGED <<protected_blocks, sections, sec>>
       ELSE /\ protected_blocks' = FindProtectedBlocks(doc)
            /\ sections' = IF respect_sections
                           THEN SplitBySections(doc)
                           ELSE <<[title |-> <<>>, text |-> doc, start |-> 0]>>
            /\ sec' = 1
            /\ pc' = IF sections' = <<>> THEN "done" ELSE "create"
    /\ UNCHANGED <<config, sec_chunks, pos, next_index, visited, aside>>

\* chunk_document(document), up to the loop over the sections.
ChunkDocument(doc) ==
    /\ pc = "idle"
    /\ content' = doc
    /\ chunks' = <<>>
    /\ chunk_index' = 0
    /\ IF Strip(doc) = <<>>
       THEN /\ pc' = "done"
            /\ UNCHANGED <<protected_blocks, sections, sec>>
       ELSE /\ protected_blocks' = FindProtectedBlocks(doc)
            /\ sections' = IF respect_sections
                           THEN SplitBySections(doc)
                           ELSE <<[title |-> <<>>, text |-> doc, start |-> 0]>>
            /\ sec' = 1
            /\ pc' = IF sections' = <<>> THEN "done" ELSE "create"
    /\ UNCHANGED <<config, sec_chunks, pos, next_index, visited, aside>>

\* _create_chunks, up to the while loop: a text that fits is one chunk.
CreateChunks ==
    /\ pc = "create"
    /\ IF Len(text) <= chunk_size
       THEN /\ sec_chunks' = IF ChunkRaises(text) THEN <<>>
                             ELSE <<MakeChunk(text, section, offset,
                                              offset + Len(text), chunk_index)>>
            /\ pc' = IF ChunkRaises(text) THEN "raised" ELSE "return"
            /\ UNCHANGED <<pos, next_index>>
       ELSE /\ sec_chunks' = <<>>
            /\ pos' = 0
            /\ next_index' = chunk_index
            /\ pc' = "loop"
    /\ visited' = {}
    /\ UNCHANGED <<config, content, protected_blocks, sections, sec, chunks,
                   chunk_index, aside>>

\* EndPos without the clamp of the target to the end of the text.
EndPosNoClamp(p) ==
    LET end_pos == p + chunk_size
    IN  IF end_pos < Len(text)
        THEN FindSafeBoundary(text, p, end_pos, protected_blocks, offset)
        ELSE end_pos

\* The end of the candidate the iteration at cursor p takes.
EndPos(p) ==
    LET end_pos == Min(p + chunk_size, Len(text))
    IN  IF end_pos < Len(text)
        THEN FindSafeBoundary(text, p, end_pos, protected_blocks, offset)
        ELSE end_pos

\* The candidate text[p:end_pos], trimmed.
ChunkText(p, end_pos) == Strip(Slice(text, p, end_pos))

\* Emits with every candidate a chunk of its own.
EmitsAlways(chunk_text) == TRUE

\* Whether the candidate becomes a chunk of its own.
Emits(chunk_text) == Len(chunk_text) >= min_chunk_size \/ sec_chunks = <<>>

\* The chunk list after the candidate: appended, or merged into the last chunk.
AfterCandidate(p, end_pos, chunk_text) ==
    IF Emits(chunk_text)
    THEN Append(sec_chunks,
                MakeChunk(chunk_text, section, offset + p, offset + end_pos,
                          next_index))
    ELSE [sec_chunks EXCEPT ![Len(sec_chunks)] =
             MakeChunk(Last(sec_chunks).text \o <<NL, NL>> \o chunk_text,
                       section, Last(sec_chunks).start_char, offset + end_pos,
                       Last(sec_chunks).chunk_index)]

\* The next free chunk index after the candidate: a merge consumes none.
IndexAfterAlways(chunk_text) == next_index + 1

IndexAfter(chunk_text) ==
    IF Emits(chunk_text) THEN next_index + 1 ELSE next_index

\* NextPos with the overlap added instead of subtracted.
NextPosForward(end_pos, after) ==
    LET moved == IF end_pos < Len(text) THEN end_pos + overlap ELSE Len(text)
    IN  IF after # <<>> /\ moved <= Last(after).start_char - offset
        THEN end_pos
        ELSE moved

\* NextPos without the guard against going backwards.
NextPosNoGuard(end_pos, after) ==
    IF end_pos < Len(text) THEN end_pos - overlap ELSE Len(text)

\* The cursor after the candidate: back by the overlap from its end, but not
\* to or before the start of the last chunk of the list `after`.
NextPos(end_pos, after) ==
    LET moved == IF end_pos < Len(text) THEN end_pos - overlap ELSE Len(text)
    IN  IF after # <<>> /\ moved <= Last(after).start_char - offset
        THEN end_pos
        ELSE moved

\* One iteration of the while loop of _create_chunks. An iteration at a loop
\* head the section has been at before repeats for ever; the model stops there.
LoopIteration ==
    /\ pc = "loop"
    /\ pos < Len(text)
    /\ LoopHead \notin visited
    /\ visited' = visited \cup {LoopHead}
    /\ LET end_pos    == EndPos(pos)
           chunk_text == ChunkText(pos, end_pos)
           after      == AfterCandidate(pos, end_pos, chunk_text)
           next_pos   == NextPos(end_pos, after)
       IN  IF Emits(chunk_text) /\ ChunkRaises(chunk_text)
           THEN /\ pc' = "raised"
                /\ UNCHANGED <<sec_chunks, pos, next_index>>
           ELSE /\ sec_chunks' = after
                /\ next_index' = IndexAfter(chunk_text)
                /\ pos' = next_pos
                /\ pc' = IF next_pos < Len(text) THEN "loop" ELSE "return"
    /\ UNCHANGED <<config, content, protected_blocks, sections, sec, chunks,
                   chunk_index, aside>>

\* _create_chunks returns; chunk_document extends its list and goes on to the
\* next section, or returns.
ReturnChunks ==
    /\ pc = "return"
    /\ chunks' = chunks \o sec_chunks
    /\ chunk_index' = chunk_index + Len(sec_chunks)
    /\ IF sec < Len(sections)
       THEN sec' = sec + 1 /\ pc' = "create"
       ELSE sec' = sec /\ pc' = "done"
    /\ UNCHANGED <<config, content, protected_blocks, sections, sec_chunks, pos,
                   next_index, visited, aside>>

\* A direct call of generate_chunk_id.
GenerateId(text_arg, source_arg, method, uuid4) ==
    /\ id_calls' = Append(id_calls,
                          [text |-> text_arg, source |-> source_arg, method |-> method,
                           id |-> GenerateChunkId(text_arg, source_arg, method, uuid4)])
    /\ UNCHANGED <<config, pc, content, protected_blocks, sections, sec, chunks,
                   chunk_index, sec_chunks, pos, next_index, visited, documents,
                   doc_i, all_chunks, returned, boundary_call>>

\* The direct call of _find_safe_boundary returns.
FindBoundary ==
    /\ boundary_call # <<>>
    /\ ~boundary_call[1].returned
    /\ LET c == boundary_call[1]
       IN  boundary_call' =
               <<[c EXCEPT !.returned = TRUE,
                           !.end = FindSafeBoundary(c.text, c.start, c.target_end,
                                                    c.protected_blocks, c.offset)]>>
    /\ UNCHANGED <<config, pc, content, protected_blocks, sections, sec, chunks,
                   chunk_index, sec_chunks, pos, next_index, visited, id_calls,
                   documents, doc_i, all_chunks, returned>>

\* chunk_documents(docs), up to its for loop.
ChunkDocuments(docs) ==
    /\ pc = "idle"
    /\ doc_i = 0
    /\ documents' = docs
    /\ doc_i' = 1
    /\ all_chunks' = <<>>
    /\ returned' = <<>>
    /\ UNCHANGED <<config, pc, content, protected_blocks, sections, sec, chunks,
                   chunk_index, sec_chunks, pos, next_index, visited, id_calls,
                   boundary_call>>

\* The for loop of chunk_documents calls chunk_document on its next document.
NextDocument ==
    /\ doc_i \in 1..Len(documents)
    /\ ChunkDocument(documents[doc_i])

\* The call of chunk_document has returned: all_chunks.extend(chunks), and the
\* loop goes on to the next document.
ExtendAllChunks ==
    /\ doc_i \in 1..Len(documents)
    /\ pc = "done"
    /\ all_chunks' = all_chunks \o chunks
    /\ returned' = Append(returned, chunks)
    /\ doc_i' = doc_i + 1
    /\ pc' = "idle"
    /\ UNCHANGED <<config, content, protected_blocks, sections, sec, chunks,
                   chunk_index, sec_chunks, pos, next_index, visited, id_calls,
                   documents, boundary_call>>

\* ------------------------------------------------------------- documents

RECURSIVE Concat(_)
Concat(ps) == IF ps = <<>> THEN <<>> ELSE ps[1] \o Concat(SubSeq(ps, 2, Len(ps)))

\* Every sequence of at most n elements of S.
RECURSIVE SeqsUpTo(_, _)
SeqsUpTo(S, n) ==
    IF n = 0 THEN {<<>>}
    ELSE LET shorter == SeqsUpTo(S, n - 1)
         IN  shorter \cup {Append(s, x) : s \in shorter, x \in S}

\* The default chunk_size, overlap and min_chunk_size of PhysicsAwareChunker.
DefaultChunkSize == 1000
DefaultOverlap == 100
DefaultMinChunkSize == 200

\* --- the general specification: every document of at most MaxPieces pieces,
\* a piece being a character or a short block, under every small configuration.
MaxPieces == 3
MaxChunk == 2
MaxOverlap == 2
MaxMin == 1

Pieces == {<<"a">>, <<SP>>, <<NL>>, <<".">>, <<"#", SP, "a">>, <<"$", "a", "$">>}
Documents == {Concat(ps) : ps \in SeqsUpTo(Pieces, MaxPieces)}

Init == Construct(1..MaxChunk, 0..MaxOverlap, 0..MaxMin, BOOLEAN)

\* A call of chunk_document on a document of the model.
Call == pc = "idle" /\ \E doc \in Documents : ChunkDocument(doc)

Next ==
    \/ Call
    \/ CreateChunks
    \/ LoopIteration
    \/ ReturnChunks

Spec == Init /\ [][Next]_vars

\* --- the loop specification: plain text of letters and line breaks, with
\* chunk sizes large enough for the backward search to move a boundary.
LoopMaxLen == 6
LoopMaxChunk == 4
LoopMaxMin == 3

LoopDocuments == SeqsUpTo({"a", NL}, LoopMaxLen)

LoopInit == Construct(1..LoopMaxChunk, 0..(LoopMaxChunk - 1), 0..LoopMaxMin, {TRUE})

LoopCall == pc = "idle" /\ \E doc \in LoopDocuments : ChunkDocument(doc)

LoopNext ==
    \/ LoopCall
    \/ CreateChunks
    \/ LoopIteration
    \/ ReturnChunks

LoopSpec == LoopInit /\ [][LoopNext]_vars

\* --- the display-math specification: the span "$$E = mc^2$$" between two
\* runs of plain text, under chunk sizes from the span's length on.
MathSpan == <<"$", "$", "E", SP, "=", SP, "m", "c", "^", "2", "$", "$">>
MathMaxPad == 6
MathMaxChunk == 13

\* n times the character c.
Run(c, n) == [i \in 1..n |-> c]

MathDocuments ==
    {Run("a", i) \o MathSpan \o Run("b", j) : i \in 0..MathMaxPad, j \in 0..MathMaxPad}

MathInit ==
    Construct(Len(MathSpan)..MathMaxChunk, 0..(MathMaxChunk - 1), {0}, {TRUE})

MathCall == pc = "idle" /\ \E doc \in MathDocuments : ChunkDocument(doc)

MathNext ==
    \/ MathCall
    \/ CreateChunks
    \/ LoopIteration
    \/ ReturnChunks

MathSpec == MathInit /\ [][MathNext]_vars

\* --- the fence specification (Scenario C): a fenced code block of 40
\* characters, of one line or of several, between two runs of plain text,
\* chunked with chunk_size = 10.
FenceLines ==
    {Run("x", 33),
     Run("x", 16) \o <<NL>> \o Run("y", 16),
     <<"x", SP, "=", SP, "2", NL, "y", SP, "=", SP, "2", NL>> \o Run("x", 21)}
Fences == {FENCE \o <<NL>> \o body \o FENCE : body \in FenceLines}
FenceMaxPad == 4

FenceDocuments ==
    {Run("a", i) \o f \o Run("b", j) : i \in 0..FenceMaxPad, j \in 0..FenceMaxPad, f \in Fences}

FenceInit ==
    Construct({10}, {0, 3, DefaultOverlap}, {0, 5, DefaultMinChunkSize}, {TRUE})

FenceCall == pc = "idle" /\ \E doc \in FenceDocuments : ChunkDocument(doc)

FenceNext ==
    \/ FenceCall
    \/ CreateChunks
    \/ LoopIteration
    \/ ReturnChunks

FenceSpec == FenceInit /\ [][FenceNext]_vars

\* --- the plain-run specification (Scenario B): a run of the letter "a", no
\* break and no block in it, chunked with chunk_size = 20.
RunMaxLen == 40
RunMaxOverlap == 6
RunMaxMin == 6

RunDocuments == {Run("a", n) : n \in 1..RunMaxLen}

RunInit == Construct({20}, 0..RunMaxOverlap, 0..RunMaxMin, BOOLEAN)

RunCall == pc = "idle" /\ \E doc \in RunDocuments : ChunkDocument(doc)

RunNext ==
    \/ RunCall
    \/ CreateChunks
    \/ LoopIteration
    \/ ReturnChunks

RunSpec == RunInit /\ [][RunNext]_vars

\* --- the id specification: direct calls of generate_chunk_id on texts of
\* about IdPrefixLen characters, a run of "a" and then a run of "b".
IdMaxCalls == 2
IdMaxTail == 2
IdMaxUuid == 2

IdTexts ==
    {Run("a", i) \o Run("b", j) :
        i \in (IdPrefixLen - 1)..(IdPrefixLen + 1), j \in 0..IdMaxTail}
IdSources == {<<"s">>, <<"t">>}

IdInit ==
    Construct({DefaultChunkSize}, {DefaultOverlap}, {DefaultMinChunkSize}, {TRUE})

IdNext ==
    /\ Len(id_calls) < IdMaxCalls
    /\ \E text_arg \in IdTexts, source_arg \in IdSources,
          method \in {"hash", "uuid"}, uuid4 \in 1..IdMaxUuid :
           GenerateId(text_arg, source_arg, method, uuid4)

IdSpec == IdInit /\ [][IdNext]_vars

\* --- the enrichment specification: documents of words of the lexicons, math
\* spans and code fences, split into chunks of 16 characters or kept whole.
WMath == <<"$", "a", "$">>
WCode == FENCE \o <<NL, "x">> \o FENCE
WStep == <<"s", "t", "e", "p">>
WHiggs == <<"H", "i", "g", "g", "s">>

\* Word lists: math, code and keywords; what gives tags; physics terms;
\* particles.
MetaWords ==
    << <<WMath, WCode, WStep, Detectors[2], WMath, WMath, WMath, WMath>>,
       <<WMath, WCode, Concepts[11], Concepts[19], Concepts[20], Concepts[10],
         Detectors[2], Detectors[5], Detectors[1], WHiggs>>,
       <<Concepts[11], Concepts[19], Concepts[20], Concepts[10], Variables[1],
         Variables[2], Variables[4], Variables[6], Variables[11], Variables[12],
         Variables[15], Variables[16]>>,
       <<Particles[20], Particles[18], Particles[15], Particles[13], Particles[14],
         Particles[5], WHiggs, Particles[3], Particles[9], Particles[2],
         Particles[21], Particles[16]>> >>

\* The words ws[i..j], joined by spaces.
RECURSIVE Join(_, _, _)
Join(ws, i, j) ==
    IF i > j THEN <<>>
    ELSE IF i = j THEN ws[i]
    ELSE ws[i] \o <<SP>> \o Join(ws, i + 1, j)

MetaDocuments ==
    UNION {{Join(MetaWords[l], i, j) :
               i \in 1..Len(MetaWords[l]), j \in 1..Len(MetaWords[l])} :
           l \in 1..Len(MetaWords)} \ {<<>>}

\* The string-hash seeds of the model.
MetaMaxSeed == 2
HashSeeds == 1..MetaMaxSeed

MetaInit == Construct({16, DefaultChunkSize}, {0}, {0, 8}, {TRUE})

MetaCall == pc = "idle" /\ \E doc \in MetaDocuments : ChunkDocument(doc)

MetaNext ==
    \/ MetaCall
    \/ CreateChunks
    \/ LoopIteration
    \/ ReturnChunks

MetaSpec == MetaInit /\ [][MetaNext]_vars

\* --- the batch specification: chunk_documents on every list of at most
\* BatchMaxDocs documents, a document occurring in it more than once or not.
BatchMaxDocs == 3

BatchContents ==
    {<<SP>>, <<"a">>, <<"a", "a", "a">>, <<"a", NL, "a", SP>>, <<"#", SP, "a", NL, "a", "a">>}

BatchInit == Construct({2}, {0, 1}, {0, 1}, {TRUE})

BatchCall ==
    pc = "idle" /\ doc_i = 0
        /\ \E docs \in SeqsUpTo(BatchContents, BatchMaxDocs) : ChunkDocuments(docs)

BatchNext ==
    \/ BatchCall
    \/ NextDocument
    \/ CreateChunks
    \/ LoopIteration
    \/ ReturnChunks
    \/ ExtendAllChunks

BatchSpec == BatchInit /\ [][BatchNext]_vars

\* --- the section specification: documents made of headers, line breaks,
\* spaces and text, and the document of Scenario A, under a chunk size that
\* holds every section and one that does not.
SecMaxPieces == 4
SecChunkSize == 3

SecPieces ==
    {<<"#", SP, "T", NL>>, <<"#", "#", SP, "S">>, <<NL>>, <<SP>>, <<"P">>, <<"#">>}

ScenarioADocument ==
    <<"#", SP, "T", NL, NL, "P", "a", "r", "a", "1", ".", NL, NL,
      "#", "#", SP, "S", NL, NL, "P", "a", "r", "a", "2", ".">>

SecDocuments ==
    {Concat(ps) : ps \in SeqsUpTo(SecPieces, SecMaxPieces)} \cup {ScenarioADocument}

SecInit == Construct({SecChunkSize, DefaultChunkSize}, {0}, {0}, {TRUE})

SecCall == pc = "idle" /\ \E doc \in SecDocuments : ChunkDocument(doc)

SecNext ==
    \/ SecCall
    \/ CreateChunks
    \/ LoopIteration
    \/ ReturnChunks

SecSpec == SecInit /\ [][SecNext]_vars

\* --- the boundary specification: direct calls of _find_safe_boundary with
\* 0 <= start < target_end < len(text), on three families of texts.
BoundaryMaxPieces == 3
BoundaryMaxStart == 1
BoundaryMaxRun == 3
BoundaryMaxLead == 50

\* A call that has not returned yet.
BoundaryCall(t, start, target_end, blocks, off) ==
    <<[text |-> t, start |-> start, target_end |-> target_end,
       protected_blocks |-> blocks, offset |-> off, returned |-> FALSE, end |-> 0]>>

\* Documents of letters, breaks, sentence ends and an inline-math span with a
\* sentence end inside; the text of the call is the document (off = 0) or the
\* document without its first and its last character (off = 1), the blocks
\* are the document's, and the call starts at 0.
MathPiece == <<"$", "a", ".", SP, "a", "$">>

BoundaryPieces ==
    {<<"a">>, <<NL>>, <<".", SP>>, <<"!", NL>>, MathPiece}

PieceCalls(max_pieces) ==
    LET docs   == {Concat(ps) : ps \in SeqsUpTo(BoundaryPieces, max_pieces)}
        inputs == {x \in docs \X {0, 1} \X (1..(max_pieces * Len(MathPiece))) :
                      x[3] < Len(x[1]) - 2 * x[2]}
    IN  {BoundaryCall(Slice(x[1], x[2], Len(x[1]) - x[2]), 0, x[3],
                      FindProtectedBlocks(x[1]), x[2]) : x \in inputs}

\* Texts with two delimiters, each a sentence terminator of any of the six
\* forms, a paragraph break or a line break: a run of letters, a delimiter,
\* a letter or none, a delimiter, a letter.
Delimiters == SentencePuncts \o << <<NL, NL>>, <<NL>> >>

DelimiterCalls(max_run) ==
    {BoundaryCall(Run("a", i) \o Delimiters[k] \o Run("a", j) \o Delimiters[l]
                      \o <<"a">>,
                  start, target_end, <<>>, 0) :
         i \in 0..max_run, j \in {0, 1}, start \in 0..BoundaryMaxStart,
         k \in 1..Len(Delimiters), l \in 1..Len(Delimiters),
         target_end \in 1..(max_run + 5)}

\* A long run of letters with one break in it, the target more than
\* SearchWindow characters into the text.
LongCalls(lead) ==
    LET target == SearchWindow + lead
    IN  {BoundaryCall(Run("a", i) \o d \o Run("a", target + 1 - i), start, target,
                      <<>>, 0) :
             i \in 0..(target - 1), d \in {<<NL, NL>>, <<".", SP>>, <<NL>>},
             start \in {0, target - SearchWindow \div 2}}

Callable(calls) ==
    {c \in calls : c[1].start < c[1].target_end /\ c[1].target_end < Len(c[1].text)}

BoundaryCalls(max_pieces, max_run, lead) ==
    PieceCalls(max_pieces) \cup Callable(DelimiterCalls(max_run)) \cup LongCalls(lead)

BoundaryInit ==
    ConstructWith({DefaultChunkSize}, {DefaultOverlap}, {DefaultMinChunkSize}, {TRUE},
                  BoundaryCalls(BoundaryMaxPieces, BoundaryMaxRun, BoundaryMaxLead))

BoundaryNext == FindBoundary

BoundarySpec == BoundaryInit /\ [][BoundaryNext]_vars

\* ----------------------------------------------------------------- claims

\* The chunks produced so far: those of the finished sections and those of
\* the section being split.
Produced == IF pc \in {"loop", "return"} THEN chunks \o sec_chunks ELSE chunks

\* Whether offset x lies strictly inside the block b.
Inside(x, b) == b.start < x /\ x < b.end

\* C1: in the list chunk_document returns, no chunk's start edge and no
\* chunk's end edge falls strictly inside a protected block of the document.
C1_NoBlockCut ==
    pc = "done" =>
        \A i \in 1..Len(chunks) : \A k \in 1..Len(protected_blocks) :
            /\ ~Inside(chunks[i].start_char, protected_blocks[k])
            /\ ~Inside(chunks[i].end_char, protected_blocks[k])

\* C2: with chunk_size >= 1 and 0 <= overlap < chunk_size the while loop of
\* _create_chunks terminates: it is never back at a loop head (cursor and
\* start of the last chunk) it has been at before, from which the iterations
\* would repeat for ever.
C2_LoopTerminates ==
    (chunk_size >= 1 /\ 0 <= overlap /\ overlap < chunk_size /\ pc = "loop")
        => LoopHead \notin visited

\* C3: chunk_document never raises: no empty text reaches the Chunk
\* constructor.
C3_NeverRaises == pc # "raised"

\* C4: the chunks _create_chunks returns for a section cover its text with no
\* gap: the first starts at the section's offset, the last ends at offset +
\* len(text), and each chunk starts at or before the end of the one before it.
C4_SectionCovered ==
    pc = "return" =>
        /\ sec_chunks # <<>>
        /\ sec_chunks[1].start_char = offset
        /\ Last(sec_chunks).end_char = offset + Len(text)
        /\ \A i \in 2..Len(sec_chunks) :
               sec_chunks[i].start_char <= sec_chunks[i - 1].end_char

\* A section split into three chunks or more, one of them overlapping the one
\* before it.
C4_Witness ==
    /\ pc = "return"
    /\ Len(sec_chunks) >= 3
    /\ \E i \in 2..Len(sec_chunks) :
           sec_chunks[i].start_char < sec_chunks[i - 1].end_char

\* C5: start_char is non-decreasing in chunk_index order, within a section
\* and across the boundary between two sections.
C5_StartsOrdered ==
    \A i \in 2..Len(Produced) :
        Produced[i - 1].start_char <= Produced[i].start_char

\* A returned list of two sections, the first split into two chunks or more.
C5_Witness ==
    /\ pc = "done"
    /\ Len(sections) >= 2
    /\ Len(chunks) >= 3
    /\ chunks[2].section = sections[1].title
    /\ chunks[1].start_char < chunks[2].start_char
    /\ chunks[2].start_char < chunks[3].start_char

\* C6: every chunk satisfies 0 <= start_char <= end_char <= len(content).
C6_SpanInDocument ==
    \A i \in 1..Len(Produced) :
        /\ 0 <= Produced[i].start_char
        /\ Produced[i].start_char <= Produced[i].end_char
        /\ Produced[i].end_char <= Len(content)

\* A chunk holds more text than its span: it absorbed a merged fragment.
Absorbed(c) == Len(c.text) > c.end_char - c.start_char

\* A returned list with a chunk whose end the block-snap moved past the
\* target, and a chunk that absorbed a merged fragment.
C6_Witness ==
    /\ pc = "done"
    /\ \E i \in 1..Len(chunks) :
           /\ chunks[i].end_char - chunks[i].start_char > chunk_size
           /\ \E k \in 1..Len(protected_blocks) :
                  protected_blocks[k].end = chunks[i].end_char
    /\ \E i \in 1..Len(chunks) : Absorbed(chunks[i])

\* C7: the chunk_index values are 0, 1, ..., n-1 in list order across all
\* sections; a merge consumes no index.
C7_IndexDense ==
    \A i \in 1..Len(Produced) : Produced[i].chunk_index = i - 1

\* A returned list of two sections in which a chunk absorbed a merged
\* fragment and a chunk follows it.
C7_Witness ==
    /\ pc = "done"
    /\ Len(sections) >= 2
    /\ \E i \in 1..(Len(chunks) - 1) : Absorbed(chunks[i])

\* C8: a document with len(content) <= chunk_size gives exactly one chunk per
\* section, whose text is the section's text trimmed of leading and trailing
\* whitespace.
C8_OneTrimmedChunk ==
    (pc = "return" /\ Len(content) <= chunk_size) =>
        /\ Len(sec_chunks) = 1
        /\ sec_chunks[1].text = Strip(text)

\* The display-math blocks of the document.
DisplayBlocks ==
    {k \in 1..Len(protected_blocks) : protected_blocks[k].block_type = "latex_display"}

\* C9: with chunk_size >= 12 and 0 <= overlap < chunk_size, no chunk boundary
\* falls strictly inside a display-math span that has no internal break.
C9_MathNeverSplit ==
    (pc = "done" /\ chunk_size >= 12 /\ overlap < chunk_size) =>
        \A i \in 1..Len(chunks) : \A k \in DisplayBlocks :
            /\ ~Inside(chunks[i].start_char, protected_blocks[k])
            /\ ~Inside(chunks[i].end_char, protected_blocks[k])

\* The code blocks of the document.
CodeBlocks ==
    {k \in 1..Len(protected_blocks) : protected_blocks[k].block_type = "code"}

\* C10: Scenario C: some chunk holds the whole 40-character fence and is at
\* least 40 characters long, and no chunk boundary falls inside the fence.
C10_FenceWhole ==
    pc = "done" =>
        \A k \in CodeBlocks :
            /\ \E i \in 1..Len(chunks) :
                   /\ chunks[i].start_char <= protected_blocks[k].start
                   /\ protected_blocks[k].end <= chunks[i].end_char
                   /\ Len(chunks[i].text) >= 40
            /\ \A i \in 1..Len(chunks) :
                   /\ ~Inside(chunks[i].start_char, protected_blocks[k])
                   /\ ~Inside(chunks[i].end_char, protected_blocks[k])

\* Scenario B: chunk_size = 20, overlap = 5, min_chunk_size = 5 and a text of
\* 30 repetitions of "a".
ScenarioB ==
    /\ chunk_size = 20 /\ overlap = 5 /\ min_chunk_size = 5
    /\ content = Run("a", 30)

\* C11 (as stated): in Scenario B three chunks are produced, whose start_char
\* values are 0, 15 and a final remainder start.
C11_ThreeChunks ==
    (ScenarioB /\ pc = "done") =>
        /\ Len(chunks) = 3
        /\ chunks[1].start_char = 0
        /\ chunks[2].start_char = 15
        /\ chunks[3].start_char > 15

\* C11 (amended): in Scenario B the boundary search falls back to the raw
\* target_end, the cursor goes from 0 to 15, where the target is the end of
\* the text, and two chunks are produced, [0, 20) and [15, 30).
C11_TwoChunks ==
    ScenarioB =>
        /\ pc = "loop" =>
               /\ pos \in {0, 15}
               /\ EndPos(pos) = Min(pos + chunk_size, Len(text))
        /\ pc = "done" =>
               /\ Len(chunks) = 2
               /\ chunks[1].start_char = 0 /\ chunks[1].end_char = 20
               /\ chunks[2].start_char = 15 /\ chunks[2].end_char = 30
               /\ chunks[1].text = Run("a", 20) /\ chunks[2].text = Run("a", 15)

\* Scenario B has returned its chunks.
C11_Witness == ScenarioB /\ pc = "done" /\ Len(chunks) = 2

\* C12: a document whose content is empty or whitespace-only gives an empty
\* list and no error; every other document gives at least one chunk: its call
\* neither raises nor returns an empty list.
C12_EmptyIffBlank ==
    /\ (Strip(content) = <<>> /\ pc # "idle") => (pc = "done" /\ chunks = <<>>)
    /\ Strip(content) # <<>> =>
           /\ pc # "raised"
           /\ pc = "done" => chunks # <<>>

\* The direct calls of generate_chunk_id under the default method.
HashCalls == {i \in 1..Len(id_calls) : id_calls[i].method = "hash"}

C14_IdsDistinct ==
    pc = "done" =>
        \A i \in 1..Len(chunks) : \A j \in 1..Len(chunks) :
            i # j => chunks[i].id # chunks[j].id

\* C16: for every chunk the chunker returns, chunk_type is "mixed" exactly
\* when has_latex and has_code are both true, whatever the number of math
\* matches and whatever keywords the text holds.
C16_MixedIffBoth ==
    pc = "done" =>
        \A i \in 1..Len(chunks) : \A seed \in HashSeeds :
            LET m == Metadata(chunks[i].text, seed)
            IN  (m.chunk_type = "mixed") <=> (m.has_latex /\ m.has_code)

\* A returned chunk with math and code in it, more than three math matches, a
\* tutorial keyword and a detector keyword.
C16_Witness ==
    /\ pc = "done"
    /\ \E i \in 1..Len(chunks) :
           /\ Metadata(chunks[i].text, 1).chunk_type = "mixed"
           /\ Len(FindIter("latex_inline", chunks[i].text, 0)) > 3
           /\ AnyKeyword(ToLower(chunks[i].text), TutorialKeywords)
           /\ AnyKeyword(ToLower(chunks[i].text), ReferenceKeywords)

\* No element occurs twice in the sequence.
NoDuplicate(s) == \A i \in 1..Len(s) : \A j \in 1..Len(s) : i # j => s[i] # s[j]

\* C17: for every chunk the chunker returns, under every order a set may be
\* listed in, tags has no duplicate and at most 8 entries, physics_terms and
\* particle_mentions have no duplicate and at most 10 entries, and
\* detector_mentions has at most 8 entries, in lexicon order.
C17_ListsBounded ==
    pc = "done" =>
        \A i \in 1..Len(chunks) : \A seed \in HashSeeds :
            LET m == Metadata(chunks[i].text, seed)
                d == m.detector_mentions
            IN  /\ NoDuplicate(m.tags) /\ Len(m.tags) <= 8
                /\ NoDuplicate(m.physics_terms) /\ Len(m.physics_terms) <= 10
                /\ NoDuplicate(m.particle_mentions) /\ Len(m.particle_mentions) <= 10
                /\ Len(d) <= 8
                /\ \A j \in 1..Len(d) : IndexOf(Detectors, d[j]) > 0
                /\ \A j \in 2..Len(d) :
                       IndexOf(Detectors, d[j - 1]) < IndexOf(Detectors, d[j])

\* A returned chunk with nine tags before the cut and eight after it, and
\* three detectors of which two are tags.
C17_Witness ==
    /\ pc = "done"
    /\ \E i \in 1..Len(chunks) :
           LET m == Metadata(chunks[i].text, 1)
           IN  /\ Len(m.tags) = 8
               /\ Len(GenerateTagsNoCap(m.physics_terms, m.detector_mentions,
                                        m.particle_mentions, m.has_latex,
                                        m.has_code, 1)) = 9
               /\ Len(m.detector_mentions) = 3
               /\ Len(m.physics_terms) > 3

\* What chunk_documents has to show for the documents it is done with: the
\* concatenation of the returned lists, each list indexed from 0, and the same
\* list for the same document wherever it stands in the input.
BatchIndependent ==
    /\ all_chunks = Concat(returned)
    /\ \A k \in 1..Len(returned) : \A i \in 1..Len(returned[k]) :
           returned[k][i].chunk_index = i - 1
    /\ \A k \in 1..Len(returned) : \A l \in 1..Len(returned) :
           documents[k] = documents[l] => returned[k] = returned[l]

SectionsSplit == pc # "idle" /\ respect_sections /\ Strip(content) # <<>>

\* The headers of the document.
Headers == HeaderMatches(content, 0)

\* The text before the first header.
PreText == Slice(content, 0, Headers[1].start)

\* The section of the k-th header: the last Len(Headers) sections are theirs.
HeaderSection(k) == sections[Len(sections) - Len(Headers) + k]

SectionsIncreasing ==
    \A i \in 1..(Len(sections) - 1) : sections[i].start < sections[i + 1].start

NoHeaderOneSection ==
    Headers = <<>> =>
        sections = <<[title |-> <<>>, text |-> content, start |-> 0]>>

LeadingSection ==
    /\ Len(sections) = Len(Headers) + 1
    /\ sections[1].title = <<>>
    /\ sections[1].start = 0
    /\ sections[1].text = Strip(PreText)

\* Every header has its one section: titled by the header's title, starting at
\* the header, its text the trimmed span up to the next header or the end of
\* the document, which begins with the header line.
HeaderSectionsRight ==
    /\ Len(sections) \in {Len(Headers), Len(Headers) + 1}
    /\ \A k \in 1..Len(Headers) :
           LET h    == Headers[k]
               end  == IF k < Len(Headers) THEN Headers[k + 1].start ELSE Len(content)
               line == Strip(Slice(content, h.start, h.end))
               s    == HeaderSection(k)
           IN  /\ s.title = h.title
               /\ s.start = h.start
               /\ s.text = Strip(Slice(content, h.start, end))
               /\ Slice(s.text, 0, Len(line)) = line

ScenarioATitles ==
    content = ScenarioADocument =>
        /\ Len(sections) = 2
        /\ sections[1].title = <<"T">>
        /\ sections[2].title = <<"S">>

\* C19 (as stated): split_by_sections returns sections in strictly increasing
\* start_offset order; a text with no header yields exactly one untitled
\* section at offset 0; non-empty text before the first header yields one
\* untitled leading section; each header yields exactly one section, titled by
\* the header's title text, whose text begins with the header line and ends
\* before the next header's start or at the end of the document; Scenario A
\* yields two sections titled "T" and "S".
C19_SectionsAsStated ==
    SectionsSplit =>
        /\ SectionsIncreasing
        /\ NoHeaderOneSection
        /\ (Headers # <<>> /\ PreText # <<>>) => LeadingSection
        /\ HeaderSectionsRight
        /\ ScenarioATitles

\* C19 (amended): as stated, but it is text before the first header that is
\* non-empty after trimming that yields the untitled leading section, and text
\* of whitespace alone yields none.
C19_SectionsTrimmedLead ==
    SectionsSplit =>
        /\ SectionsIncreasing
        /\ NoHeaderOneSection
        /\ Headers # <<>> =>
               IF Strip(PreText) # <<>>
               THEN LeadingSection
               ELSE Len(sections) = Len(Headers)
        /\ HeaderSectionsRight
        /\ ScenarioATitles

\* A returned document with text before its first header and two headers.
C19_Witness ==
    /\ pc = "done"
    /\ SectionsSplit
    /\ Len(Headers) = 2
    /\ Len(sections) = 3
    /\ sections[1].title = <<>>
    /\ sections[2].title = <<"T">>
    /\ sections[3].title = <<"S">>

\* C20: for every section returned by split_by_sections, start_offset is the
\* offset in the document of the first character of the section's text:
\* document[start_offset + i] = text[i] for every i < len(text), also for the
\* untitled leading section of a document that begins with whitespace.
C20_StartOffsetAbsolute ==
    SectionsSplit =>
        \A k \in 1..Len(sections) :
            /\ sections[k].start + Len(sections[k].text) <= Len(content)
            /\ \A i \in 0..(Len(sections[k].text) - 1) :
                   At(content, sections[k].start + i) = At(sections[k].text, i)

\* An iteration of the while loop of _create_chunks that ran to its end.
IterationDone == pc = "loop" /\ pc' \in {"loop", "return"}

\* C21: in the splitting loop of _create_chunks, for chunk_size >= 1 and
\* 0 <= overlap < chunk_size, the pos after every iteration, whether the
\* candidate was emitted or merged, is strictly greater than the pos at the
\* start of that iteration.
C21_CursorAdvances ==
    [][(IterationDone /\ chunk_size >= 1 /\ overlap < chunk_size) => pos' > pos]_vars

\* An iteration that merged its candidate into the previous chunk.
MergeStep == IterationDone /\ Len(sec_chunks') = Len(sec_chunks)

\* The merged chunk is the previous one with the candidate added.
MergedRight ==
    LET n         == Len(sec_chunks)
        end_pos   == EndPos(pos)
        candidate == ChunkText(pos, end_pos)
    IN  /\ n >= 1
        /\ sec_chunks'[n].start_char = sec_chunks[n].start_char
        /\ sec_chunks'[n].chunk_index = sec_chunks[n].chunk_index
        /\ sec_chunks'[n].text = sec_chunks[n].text \o <<NL, NL>> \o candidate
        /\ sec_chunks'[n].end_char = offset + end_pos
        /\ \A i \in 1..(n - 1) : sec_chunks'[i] = sec_chunks[i]
        /\ next_index' = next_index

\* C22 (as stated): when a candidate is merged into the previous chunk of the
\* section, the previous chunk is replaced by one with the same start_char and
\* chunk_index, text equal to previous text + two newlines + candidate, and
\* end_char equal to the section offset plus the new resolved end, which is
\* never smaller than the previous chunk's end_char; all earlier chunks of the
\* section and the next free chunk index are left unchanged.
C22_MergeExtends ==
    [][MergeStep => (MergedRight /\ Last(sec_chunks').end_char >= Last(sec_chunks).end_char)]_vars

\* The chunks of a section longer than chunk_size, as the loop has them: once
\* the loop is over there is at least one, and every one but the first has a
\* text of min_chunk_size characters or more.
SectionChunksSized ==
    (pc \in {"loop", "return"} /\ Len(text) > chunk_size) =>
        /\ pc = "return" => Len(sec_chunks) >= 1
        /\ \A i \in 2..Len(sec_chunks) : Len(sec_chunks[i].text) >= min_chunk_size

\* An iteration that emitted its candidate as a chunk of its own.
EmitStep == IterationDone /\ Len(sec_chunks') = Len(sec_chunks) + 1

C24_StartsByOverlap ==
    pc \in {"loop", "return"} =>
        \A i \in 1..(Len(sec_chunks) - 1) :
            LET earlier == sec_chunks[i]
                later   == sec_chunks[i + 1]
            IN  later.start_char =
                    IF earlier.end_char - overlap <= earlier.start_char
                    THEN earlier.end_char
                    ELSE earlier.end_char - overlap

\* A returned section, 0 < overlap < chunk_size, with a chunk that took in a
\* merged candidate and whose successor starts at its final end_char minus
\* the overlap.
C24_Witness ==
    /\ pc = "return"
    /\ overlap > 0
    /\ overlap < chunk_size
    /\ \E i \in 1..(Len(sec_chunks) - 1) :
           /\ sec_chunks[i + 1].start_char = sec_chunks[i].end_char - overlap
           /\ Len(sec_chunks[i].text) > sec_chunks[i].end_char - sec_chunks[i].start_char

\* The direct call of _find_safe_boundary has returned.
BoundaryReturned == boundary_call # <<>> /\ boundary_call[1].returned

\* The call's target after the protected-block snap, and the search window
\* before it: at most SearchWindow characters, never from before the start.
CallSnapped ==
    LET c == boundary_call[1]
    IN  SnapTarget(c.text, c.target_end, c.protected_blocks, c.offset)

CallWindowStart == Max(boundary_call[1].start, CallSnapped - SearchWindow)

CallWindow == Slice(boundary_call[1].text, CallWindowStart, CallSnapped)

\* The offsets of the window w where the delimiter occurs.
Occurrences(w, delimiter) ==
    {i \in 0..(Len(w) - Len(delimiter)) : OccursAt(w, delimiter, i)}

\* The matches each rule accepts in the window w: paragraph breaks past its
\* midpoint, sentence terminators and line breaks past its first third.
ParagraphMatches(w) == {i \in Occurrences(w, <<NL, NL>>) : 2 * i > Len(w)}

SentenceMatches(w) ==
    {i \in UNION {Occurrences(w, SentencePuncts[k]) : k \in 1..Len(SentencePuncts)} :
        3 * i > Len(w)}

LineMatches(w) == {i \in Occurrences(w, <<NL>>) : 3 * i > Len(w)}

Highest(S) == CHOOSE i \in S : \A j \in S : j <= i

\* C25: find_safe_boundary searches the window of at most 200 characters
\* before the (possibly snapped) target_end, clamped to the chunk start, in the
\* order paragraph break (accepted past the window's midpoint), sentence
\* terminator (past one third), line break (past one third); the first rule
\* with an accepted match decides, the result being window start + match
\* offset + delimiter length, and with no accepted match the result is the
\* (possibly snapped) target_end.
C25_RulesInOrder ==
    BoundaryReturned =>
        LET end       == boundary_call[1].end
            snapped   == CallSnapped
            first     == CallWindowStart
            w         == CallWindow
            paragraph == ParagraphMatches(w)
            sentence  == SentenceMatches(w)
            line      == LineMatches(w)
        IN  /\ Len(w) <= 200
            /\ IF paragraph # {}
               THEN end = first + Highest(paragraph) + 2
               ELSE IF sentence # {}
               THEN end - first - 2 \in sentence
               ELSE IF line # {}
               THEN end = first + Highest(line) + 1
               ELSE end = snapped

\* A call whose target was snapped to the end of a block and whose window
\* holds a paragraph break before its midpoint and a sentence terminator past
\* its first third: the sentence rule decided.
C25_Witness ==
    /\ BoundaryReturned
    /\ CallSnapped # boundary_call[1].target_end
    /\ Occurrences(CallWindow, <<NL, NL>>) # {}
    /\ ParagraphMatches(CallWindow) = {}
    /\ SentenceMatches(CallWindow) # {}
    /\ boundary_call[1].end < CallSnapped

\* C26: when the sentence rule decides (no paragraph break is accepted and
\* some sentence terminator is), the end is right after the right-most
\* terminator of the window over the six forms together: no terminator of any
\* form occurs in the window after the chosen one.
C26_RightmostTerminator ==
    BoundaryReturned =>
        LET w        == CallWindow
            sentence == SentenceMatches(w)
        IN  (ParagraphMatches(w) = {} /\ sentence # {}) =>
                boundary_call[1].end = CallWindowStart + Highest(sentence) + 2

\* C27: the end a call of find_safe_boundary returns, as an absolute document
\* offset, is strictly inside no protected block: no block has
\* start < offset + end < end.
C27_EndOutsideBlocks ==
    BoundaryReturned =>
        LET c       == boundary_call[1]
            end_abs == c.offset + c.end
        IN  \A k \in 1..Len(c.protected_blocks) :
                ~(c.protected_blocks[k].start < end_abs /\ end_abs < c.protected_blocks[k].end)

\* The number of display and inline math matches of the text.
MathMatches(t) ==
    Len(FindIter("latex_display", t, 0)) + Len(FindIter("latex_inline", t, 0))

\* C28: for every chunk the chunker returns, chunk_type follows a strict
\* priority: code without math is "code" whatever keywords the text holds;
\* math without code is "equation" exactly when display and inline math match
\* more than 3 times together, "theory" otherwise; with neither, a tutorial
\* keyword gives "tutorial", else a detector keyword "reference", else
\* "theory"; the type is one of the six and validate_chunk accepts it.
C28_TypeByPriority ==
    pc = "done" =>
        \A i \in 1..Len(chunks) : \A seed \in HashSeeds :
            LET body     == chunks[i].text
                m        == Metadata(body, seed)
                type     == m.chunk_type
                tutorial == AnyKeyword(ToLower(body), TutorialKeywords)
                detector == AnyKeyword(ToLower(body), ReferenceKeywords)
            IN  /\ (m.has_code /\ ~m.has_latex) => type = "code"
                /\ (m.has_latex /\ ~m.has_code) =>
                       /\ type \in {"equation", "theory"}
                       /\ (type = "equation") <=> (MathMatches(body) > 3)
                /\ (~m.has_latex /\ ~m.has_code) =>
                       /\ tutorial => type = "tutorial"
                       /\ (~tutorial /\ detector) => type = "reference"
                       /\ (~tutorial /\ ~detector) => type = "theory"
                /\ type \in {"mixed", "code", "equation", "theory", "tutorial", "reference"}
                /\ type \in ValidTypes

\* The call returned a chunk of code and a tutorial keyword that is "code",
\* and a chunk of math and no code.
C28_Witness ==
    /\ pc = "done"
    /\ \E i \in 1..Len(chunks) :
           /\ Metadata(chunks[i].text, 1).chunk_type = "code"
           /\ AnyKeyword(ToLower(chunks[i].text), TutorialKeywords)
    /\ \E i \in 1..Len(chunks) :
           /\ Metadata(chunks[i].text, 1).chunk_type \in {"theory", "equation"}
           /\ MathMatches(chunks[i].text) > 0

\* C29: for every chunk the chunker returns, under every order a set may be
\* listed in, the feature tags agree with the flags after the tags were
\* deduplicated and cut to 8: "equations" is a tag exactly when has_latex,
\* "code-example" exactly when has_code, "particles" exactly when
\* particle_mentions is not empty.
C29_FeatureTagsAgree ==
    pc = "done" =>
        \A i \in 1..Len(chunks) : \A seed \in HashSeeds :
            LET m == Metadata(chunks[i].text, seed)
            IN  /\ (TagEquations \in Range(m.tags)) <=> m.has_latex
                /\ (TagCodeExample \in Range(m.tags)) <=> m.has_code
                /\ (TagParticles \in Range(m.tags)) <=> (m.particle_mentions # <<>>)

\* The call of find_safe_boundary the iteration at the loop head makes, if it
\* makes one: the target is short of the end of the section text.
LoopCalls == pc = "loop" /\ pos < Len(text) /\ pos + chunk_size < Len(text)

LoopSnapped == SnapTarget(text, pos + chunk_size, protected_blocks, offset)

====
